---- MODULE Spec2Model ----
(***************************************************************************)
(* Model of pkg/api/message.go: the Message schema's predicates, the       *)
(* Buttons filters and the ButtonBuilder.                                  *)
(*                                                                         *)
(* A Go string that the code concatenates or compares with "" is a         *)
(* sequence of characters; the string-typed enumerations (ButtonStyle,     *)
(* MessageType, ...) are compared only for equality and stay TLA+ strings. *)
(* A Go slice is a sequence; the nil slice and the empty slice both have   *)
(* length 0 and are the empty sequence.  A nil pointer receiver is NilPtr. *)
(***************************************************************************)
EXTENDS Naturals, Sequences, FiniteSets, TLC

VARIABLES recv, args, ret

vars == <<recv, args, ret>>

----------------------------------------------------------------------------
(* Bounds of the model.                                                    *)

MaxStrLen == 1
MaxTime == 1
MaxSections == 1
MaxInputs == 1
MaxButtons == 3
MaxSelects == 2
MaxOptions == 2
MaxLists == 2
MaxBullets == 1
MaxStyles == 2

----------------------------------------------------------------------------
(* Strings.                                                                *)

Chars == {"a", " ", "@"}

SeqsUpTo(S, n) == UNION {[1..k -> S] : k \in 0..n}

Strings == SeqsUpTo(Chars, MaxStrLen)

MessageBotNamePlaceholder == <<"@">>

\* fmt.Sprintf("%s %s", a, b)
Sprintf(a, b) == a \o <<" ">> \o b

\* A pointer receiver: nil, or the address of a value.
NilPtr == [nil |-> TRUE]

Ptr(v) == [nil |-> FALSE, val |-> v]

----------------------------------------------------------------------------
(* Enumerations.                                                           *)

ButtonStyleDefault == ""
ButtonStylePrimary == "primary"
ButtonStyleDanger == "danger"
ButtonStyles == {ButtonStyleDefault, ButtonStylePrimary, ButtonStyleDanger}

ButtonDescriptionStyleBold == "bold"
ButtonDescriptionStyleText == "text"
ButtonDescriptionStyleCode == "code"

StaticSelect == "static"
ExternalSelect == "external"

DefaultMessage == ""
PopupMessage == "form"
SkipMessage == "skipMessage"
MessageTypes == {DefaultMessage, PopupMessage, SkipMessage}

----------------------------------------------------------------------------
(* Message and its predicates.                                             *)

Body(codeBlock, plaintext) == [CodeBlock |-> codeBlock, Plaintext |-> plaintext]

Bodies == {Body(c, p) : c \in {<<>>, <<"a">>}, p \in {<<>>, <<"a">>}}

\* A Section: only the fields the modelled operations can reach through a
\* Message are kept (the message predicates read the length of Sections).
Section(header, body) == [Header |-> header, Body |-> body]

Sections == {Section(<<>>, Body(<<>>, <<>>)), Section(<<"a">>, Body(<<>>, <<"a">>))}

LabelInput(command, text) == [Command |-> command, Text |-> text]

LabelInputs == {LabelInput(<<>>, <<>>), LabelInput(<<"a">>, <<"a">>)}

Message(type, baseBody, timestamp, sections, inputs, only, replace, user, parent) ==
    [Type |-> type, BaseBody |-> baseBody, Timestamp |-> timestamp,
     Sections |-> sections, PlaintextInputs |-> inputs,
     OnlyVisibleForYou |-> only, ReplaceOriginal |-> replace,
     UserHandle |-> user, ParentActivityID |-> parent]

Messages ==
    {Message(t, b, ts, s, i, o, r, u, p) :
        t \in MessageTypes, b \in Bodies, ts \in 0..MaxTime,
        s \in SeqsUpTo(Sections, MaxSections),
        i \in SeqsUpTo(LabelInputs, MaxInputs),
        o \in BOOLEAN, r \in BOOLEAN,
        u \in {<<>>, <<"a">>}, p \in {<<>>, <<"a">>}}

\* time.Time.IsZero: the zero instant is 0.
TimeIsZero(t) == t = 0

HasBaseBody(msg) ==
    LET emptyBase == Body(<<>>, <<>>)
    IN  msg.BaseBody # emptyBase

HasSections(msg) == Len(msg.Sections) # 0

HasInputs(msg) == Len(msg.PlaintextInputs) # 0

IsEmpty_NoTimestamp(msg) ==
    IF HasBaseBody(msg) THEN FALSE
    ELSE IF HasInputs(msg) THEN FALSE
    ELSE IF HasSections(msg) THEN FALSE
    ELSE TRUE

IsEmpty(msg) ==
    IF HasBaseBody(msg) THEN FALSE
    ELSE IF HasInputs(msg) THEN FALSE
    ELSE IF HasSections(msg) THEN FALSE
    ELSE IF ~TimeIsZero(msg.Timestamp) THEN FALSE
    ELSE TRUE

----------------------------------------------------------------------------
(* Button and the ButtonBuilder.                                           *)

Button(description, descriptionStyle, name, command, url, style) ==
    [Description |-> description, DescriptionStyle |-> descriptionStyle,
     Name |-> name, Command |-> command, URL |-> url, Style |-> style]

\* bt := ButtonStyleDefault; if len(style) > 0 { bt = style[0] }
FirstStyle(style) == IF Len(style) > 0 THEN style[1] ELSE ButtonStyleDefault

commandWithDesc_NoPrefix(name, cmd, desc, style, descStyle) ==
    Button(desc, descStyle, name, cmd, <<>>, style)

commandWithDesc(name, cmd, desc, style, descStyle) ==
    LET cmd2 == Sprintf(MessageBotNamePlaceholder, cmd)
    IN  Button(desc, descStyle, name, cmd2, <<>>, style)

commandWithCmdDesc_PlainDesc(name, cmd, desc, style) ==
    commandWithDesc(name, cmd, desc, style, ButtonDescriptionStyleCode)

commandWithCmdDesc(name, cmd, desc, style) ==
    LET desc2 == Sprintf(MessageBotNamePlaceholder, desc)
    IN  commandWithDesc(name, cmd, desc2, style, ButtonDescriptionStyleCode)

ForCommandWithDescCmd(name, cmd, style) ==
    LET bt == FirstStyle(style)
    IN  commandWithCmdDesc(name, cmd, cmd, bt)

ForCommandWithBoldDesc(name, desc, cmd, style) ==
    LET bt == FirstStyle(style)
    IN  commandWithDesc(name, cmd, desc, bt, ButtonDescriptionStyleBold)

DescriptionURL_WithCommand(name, cmd, url, style) ==
    Button(Sprintf(MessageBotNamePlaceholder, cmd), "", name, cmd, url,
           FirstStyle(style))

DescriptionURL(name, cmd, url, style) ==
    LET bt == FirstStyle(style)
    IN  Button(Sprintf(MessageBotNamePlaceholder, cmd), "", name, <<>>, url, bt)

ForCommandWithoutDesc(name, cmd, style) ==
    LET bt == FirstStyle(style)
        cmd2 == Sprintf(MessageBotNamePlaceholder, cmd)
    IN  Button(<<>>, "", name, cmd2, <<>>, bt)

ForCommand_AsBoldDesc(name, cmd, desc, style) ==
    ForCommandWithBoldDesc(name, desc, cmd, style)

ForCommand(name, cmd, desc, style) ==
    LET bt == FirstStyle(style)
    IN  commandWithCmdDesc(name, cmd, desc, bt)

ForURL_LastStyle(name, url, style) ==
    Button(<<>>, "", name, <<>>, url,
           IF Len(style) > 0 THEN style[Len(style)] ELSE ButtonStyleDefault)

ForURL(name, url, style) ==
    LET bt == FirstStyle(style)
    IN  Button(<<>>, "", name, <<>>, url, bt)

ForURLWithBoldDesc(name, desc, url, style) ==
    LET urlBtn == ForURL(name, url, style)
    IN  [urlBtn EXCEPT !.Description = desc,
                       !.DescriptionStyle = ButtonDescriptionStyleBold]

ForURLWithTextDesc_Bold(name, desc, url, style) ==
    ForURLWithBoldDesc(name, desc, url, style)

ForURLWithTextDesc(name, desc, url, style) ==
    LET urlBtn == ForURL(name, url, style)
    IN  [urlBtn EXCEPT !.Description = desc,
                       !.DescriptionStyle = ButtonDescriptionStyleText]

Styles == SeqsUpTo(ButtonStyles, MaxStyles)

----------------------------------------------------------------------------
(* Buttons and its two filters.                                            *)

\* The buttons a collection is made of: two with a description, two without.
ButtonSamples ==
    {ForCommand(<<"a">>, <<"a">>, <<"a">>, <<>>),
     ForURLWithBoldDesc(<<"a">>, <<"a">>, <<"a">>, <<>>),
     ForCommandWithoutDesc(<<"a">>, <<"a">>, <<>>),
     ForURLWithTextDesc(<<"a">>, <<>>, <<"a">>, <<ButtonStylePrimary>>)}

ButtonsValues == SeqsUpTo(ButtonSamples, MaxButtons)

RECURSIVE withDescriptionLoop(_, _, _)
\* for _, item := range *s, from index i on, appending to out
withDescriptionLoop(s, i, out) ==
    IF i > Len(s) THEN out
    ELSE IF s[i].Description = <<>> THEN withDescriptionLoop(s, i + 1, out)
    ELSE withDescriptionLoop(s, i + 1, Append(out, s[i]))

RECURSIVE withDescriptionLoop_Prepend(_, _, _)
withDescriptionLoop_Prepend(s, i, out) ==
    IF i > Len(s) THEN out
    ELSE IF s[i].Description = <<>> THEN withDescriptionLoop_Prepend(s, i + 1, out)
    ELSE withDescriptionLoop_Prepend(s, i + 1, <<s[i]>> \o out)

GetButtonsWithDescription_Prepend(s) ==
    IF s.nil THEN <<>> ELSE withDescriptionLoop_Prepend(s.val, 1, <<>>)

GetButtonsWithDescription(s) ==
    IF s.nil THEN <<>> ELSE withDescriptionLoop(s.val, 1, <<>>)

RECURSIVE withoutDescriptionLoop(_, _, _)
withoutDescriptionLoop(s, i, out) ==
    IF i > Len(s) THEN out
    ELSE IF s[i].Description # <<>> THEN withoutDescriptionLoop(s, i + 1, out)
    ELSE withoutDescriptionLoop(s, i + 1, Append(out, s[i]))

GetButtonsWithoutDescription(s) ==
    IF s.nil THEN <<>> ELSE withoutDescriptionLoop(s.val, 1, <<>>)

----------------------------------------------------------------------------
(* Selects, MultiSelect and BulletLists.                                   *)

OptionItem(name, value) == [Name |-> name, Value |-> value]

OptionItems == {OptionItem(<<"a">>, <<"a">>), OptionItem(<<>>, <<>>)}

OptionGroup(name, options) == [Name |-> name, Options |-> options]

Select(type, name, command, optionGroups) ==
    [Type |-> type, Name |-> name, Command |-> command, OptionGroups |-> optionGroups]

\* A static select offering one option, a static select whose only group is
\* empty, and an external select (no option groups).
SelectSamples ==
    {Select(StaticSelect, <<"a">>, <<"a">>,
            <<OptionGroup(<<"a">>, <<OptionItem(<<"a">>, <<"a">>)>>)>>),
     Select(StaticSelect, <<"a">>, <<"a">>, <<OptionGroup(<<"a">>, <<>>)>>),
     Select(ExternalSelect, <<"a">>, <<"a">>, <<>>)}

Selects(id, items) == [ID |-> id, Items |-> items]

SelectsValues ==
    {Selects(id, items) : id \in {<<>>, <<"a">>},
                          items \in SeqsUpTo(SelectSamples, MaxSelects)}

SelectsAreOptionsDefined(s) ==
    IF s.nil THEN FALSE
    ELSE Len(s.val.Items) > 0

MultiSelect(name, command, options, initialOptions) ==
    [Name |-> name, Description |-> Body(<<>>, <<>>), Command |-> command,
     Options |-> options, InitialOptions |-> initialOptions]

\* InitialOptions is empty or the first offered option (a sub-set of Options).
MultiSelectValues ==
    {MultiSelect(n, c, o, i) : n \in {<<>>, <<"a">>}, c \in {<<>>, <<"a">>},
        o \in SeqsUpTo(OptionItems, MaxOptions), i \in {<<>>}}
    \cup
    {MultiSelect(<<"a">>, <<"a">>, o, <<o[1]>>) :
        o \in SeqsUpTo(OptionItems, MaxOptions) \ {<<>>}}

MultiSelectAreOptionsDefined(m) ==
    IF m.nil THEN FALSE
    ELSE IF Len(m.val.Options) = 0 THEN FALSE
    ELSE TRUE

BulletList(title, items) == [Title |-> title, Items |-> items]

BulletListValues ==
    {BulletList(t, i) : t \in {<<>>, <<"a">>},
                        i \in SeqsUpTo({<<"a">>}, MaxBullets)}

BulletListsValues == SeqsUpTo(BulletListValues, MaxLists)

RECURSIVE itemsDefinedLoop(_, _)
\* for _, list := range l, from index i on
itemsDefinedLoop(l, i) ==
    IF i > Len(l) THEN FALSE
    ELSE IF Len(l[i].Items) > 0 THEN TRUE
    ELSE itemsDefinedLoop(l, i + 1)

AreItemsDefined_AnyList(l) == Len(l) > 0

AreItemsDefined(l) == itemsDefinedLoop(l, 1)

----------------------------------------------------------------------------
(* The state machine.                                                      *)
(*   recv  the value the methods are invoked on                            *)
(*   args  the arguments of the builder call made, <<>> before one         *)
(*   ret   the values returned so far, by operation name                   *)

Receiver(type, val) == [type |-> type, val |-> val]

TheBuilder == Receiver("ButtonBuilder", <<>>)

Init ==
    /\ args = <<>>
    /\ ret = <<>>
    /\ \/ \E m \in Messages : recv = Receiver("Message", m)
       \/ \E b \in ButtonsValues : recv = Receiver("Buttons", Ptr(b))
       \/ recv = Receiver("Buttons", NilPtr)
       \/ \E v \in SelectsValues : recv = Receiver("Selects", Ptr(v))
       \/ recv = Receiver("Selects", NilPtr)
       \/ \E v \in MultiSelectValues : recv = Receiver("MultiSelect", Ptr(v))
       \/ recv = Receiver("MultiSelect", NilPtr)
       \/ \E l \in BulletListsValues : recv = Receiver("BulletLists", l)
       \/ recv = TheBuilder

\* A method of type t returns v from operation op.
Returns(t, op, v) ==
    /\ recv.type = t
    /\ ret' = (op :> v) @@ ret
    /\ UNCHANGED <<recv, args>>

CallIsEmpty == Returns("Message", "IsEmpty", IsEmpty(recv.val))

CallHasBaseBody == Returns("Message", "HasBaseBody", HasBaseBody(recv.val))

CallHasSections == Returns("Message", "HasSections", HasSections(recv.val))

CallHasInputs == Returns("Message", "HasInputs", HasInputs(recv.val))

CallGetButtonsWithDescription ==
    Returns("Buttons", "GetButtonsWithDescription", GetButtonsWithDescription(recv.val))

CallGetButtonsWithoutDescription ==
    Returns("Buttons", "GetButtonsWithoutDescription",
            GetButtonsWithoutDescription(recv.val))

CallSelectsAreOptionsDefined ==
    Returns("Selects", "AreOptionsDefined", SelectsAreOptionsDefined(recv.val))

CallMultiSelectAreOptionsDefined ==
    Returns("MultiSelect", "AreOptionsDefined", MultiSelectAreOptionsDefined(recv.val))

CallAreItemsDefined ==
    Returns("BulletLists", "AreItemsDefined", AreItemsDefined(recv.val))

\* NewMessageButtonBuilder returns a new ButtonBuilder{}: it has no fields,
\* and nothing of an earlier call is left.
NewMessageButtonBuilder ==
    /\ recv' = TheBuilder
    /\ args' = <<>>
    /\ ret' = <<>>

\* A builder operation is called on the builder NewMessageButtonBuilder
\* returned.
BuilderReady == recv = TheBuilder /\ DOMAIN ret = {}

\* The builder operation op, called with arguments a, returns the Button v.
Builds(op, a, v) ==
    /\ args' = a
    /\ ret' = (op :> v)
    /\ UNCHANGED recv

CallForCommandWithDescCmd ==
    /\ BuilderReady
    /\ \E name \in Strings, cmd \in Strings, style \in Styles :
           Builds("ForCommandWithDescCmd",
                  [name |-> name, cmd |-> cmd, style |-> style],
                  ForCommandWithDescCmd(name, cmd, style))

CallForCommandWithBoldDesc ==
    /\ BuilderReady
    /\ \E name \in Strings, desc \in Strings, cmd \in Strings, style \in Styles :
           Builds("ForCommandWithBoldDesc",
                  [name |-> name, desc |-> desc, cmd |-> cmd, style |-> style],
                  ForCommandWithBoldDesc(name, desc, cmd, style))

CallDescriptionURL ==
    /\ BuilderReady
    /\ \E name \in Strings, cmd \in Strings, url \in Strings, style \in Styles :
           Builds("DescriptionURL",
                  [name |-> name, cmd |-> cmd, url |-> url, style |-> style],
                  DescriptionURL(name, cmd, url, style))

CallForCommandWithoutDesc ==
    /\ BuilderReady
    /\ \E name \in Strings, cmd \in Strings, style \in Styles :
           Builds("ForCommandWithoutDesc",
                  [name |-> name, cmd |-> cmd, style |-> style],
                  ForCommandWithoutDesc(name, cmd, style))

CallForCommand ==
    /\ BuilderReady
    /\ \E name \in Strings, cmd \in Strings, desc \in Strings, style \in Styles :
           Builds("ForCommand",
                  [name |-> name, cmd |-> cmd, desc |-> desc, style |-> style],
                  ForCommand(name, cmd, desc, style))

CallForURLWithBoldDesc ==
    /\ BuilderReady
    /\ \E name \in Strings, desc \in Strings, url \in Strings, style \in Styles :
           Builds("ForURLWithBoldDesc",
                  [name |-> name, desc |-> desc, url |-> url, style |-> style],
                  ForURLWithBoldDesc(name, desc, url, style))

CallForURLWithTextDesc ==
    /\ BuilderReady
    /\ \E name \in Strings, desc \in Strings, url \in Strings, style \in Styles :
           Builds("ForURLWithTextDesc",
                  [name |-> name, desc |-> desc, url |-> url, style |-> style],
                  ForURLWithTextDesc(name, desc, url, style))

CallForURL ==
    /\ BuilderReady
    /\ \E name \in Strings, url \in Strings, style \in Styles :
           Builds("ForURL",
                  [name |-> name, url |-> url, style |-> style],
                  ForURL(name, url, style))

Next ==
    \/ CallIsEmpty
    \/ CallHasBaseBody
    \/ CallHasSections
    \/ CallHasInputs
    \/ CallGetButtonsWithDescription
    \/ CallGetButtonsWithoutDescription
    \/ CallSelectsAreOptionsDefined
    \/ CallMultiSelectAreOptionsDefined
    \/ CallAreItemsDefined
    \/ NewMessageButtonBuilder
    \/ CallForCommandWithDescCmd
    \/ CallForCommandWithBoldDesc
    \/ CallDescriptionURL
    \/ CallForCommandWithoutDesc
    \/ CallForCommand
    \/ CallForURLWithBoldDesc
    \/ CallForURLWithTextDesc
    \/ CallForURL

Spec == Init /\ [][Next]_vars

----------------------------------------------------------------------------
(* Properties.                                                             *)

Called(t, op) == recv.type = t /\ op \in DOMAIN ret

\* The builder operation called, and the Button it returned.
Built(op) == recv.type = "ButtonBuilder" /\ DOMAIN ret = {op}

CommandOps ==
    {"ForCommandWithDescCmd", "ForCommandWithBoldDesc", "ForCommandWithoutDesc",
     "ForCommand"}

URLOps == {"ForURL", "ForURLWithBoldDesc", "ForURLWithTextDesc", "DescriptionURL"}

Prefixed(str) == MessageBotNamePlaceholder \o <<" ">> \o str

\* C1: IsEmpty() returns true iff HasBaseBody(), HasSections() and HasInputs()
\* are all false and Timestamp is the zero value.  The result is therefore a
\* function of BaseBody, Sections, PlaintextInputs and Timestamp alone: Type,
\* UserHandle, ParentActivityID, OnlyVisibleForYou and ReplaceOriginal never
\* affect it, and a non-zero Timestamp alone makes the message non-empty.
C1_IsEmptyIff ==
    Called("Message", "IsEmpty") =>
        LET msg == recv.val
            has(op, v) == IF op \in DOMAIN ret THEN ret[op] ELSE v
        IN  /\ ret["IsEmpty"] =
                   (/\ ~has("HasBaseBody", HasBaseBody(msg))
                    /\ ~has("HasSections", HasSections(msg))
                    /\ ~has("HasInputs", HasInputs(msg))
                    /\ msg.Timestamp = 0)
            /\ ret["IsEmpty"] =
                   (/\ msg.BaseBody.CodeBlock = <<>>
                    /\ msg.BaseBody.Plaintext = <<>>
                    /\ msg.Sections = <<>>
                    /\ msg.PlaintextInputs = <<>>
                    /\ msg.Timestamp = 0)

\* A message whose only set field is the Timestamp was found not empty.
C1_Witness ==
    /\ Called("Message", "IsEmpty")
    /\ recv.val = Message(DefaultMessage, Body(<<>>, <<>>), 1, <<>>, <<>>,
                          FALSE, FALSE, <<>>, <<>>)
    /\ ret["IsEmpty"] = FALSE

HasDescription(b) == b.Description # <<>>

HasNoDescription(b) == b.Description = <<>>

Range(seq) == {seq[i] : i \in 1..Len(seq)}

\* C2: GetButtonsWithDescription() and GetButtonsWithoutDescription() partition
\* the collection B: each result is the buttons of B with (without) a
\* description in their order in B, so every button of B is in exactly one
\* result, the results are disjoint, their lengths sum to len(B) and no button
\* outside B appears.
C2_Partition ==
    (/\ Called("Buttons", "GetButtonsWithDescription")
     /\ Called("Buttons", "GetButtonsWithoutDescription")) =>
        LET B == IF recv.val.nil THEN <<>> ELSE recv.val.val
            with == ret["GetButtonsWithDescription"]
            without == ret["GetButtonsWithoutDescription"]
        IN  /\ with = SelectSeq(B, HasDescription)
            /\ without = SelectSeq(B, HasNoDescription)
            /\ Len(with) + Len(without) = Len(B)
            /\ Range(with) \cap Range(without) = {}
            /\ Range(with) \cup Range(without) = Range(B)
            /\ \A k \in 1..Len(B) :
                   /\ (B[k] \in Range(with)) = (B[k].Description # <<>>)
                   /\ (B[k] \in Range(without)) = (B[k].Description = <<>>)

\* Both filters ran on three buttons, two different ones with a description
\* around one without.
C2_Witness ==
    /\ Called("Buttons", "GetButtonsWithDescription")
    /\ Called("Buttons", "GetButtonsWithoutDescription")
    /\ ~recv.val.nil
    /\ Len(recv.val.val) = 3
    /\ Len(ret["GetButtonsWithDescription"]) = 2
    /\ ret["GetButtonsWithDescription"][1] # ret["GetButtonsWithDescription"][2]
    /\ ret["GetButtonsWithoutDescription"] = <<recv.val.val[2]>>

\* C3: AreOptionsDefined() returns false for a nil receiver, and for a non-nil
\* one returns true iff at least one offered option exists: for MultiSelect,
\* Options is non-empty; for Selects, some contained Select offers at least
\* one option in its option groups.
C3_OptionsDefinedIffOffered ==
    /\ Called("MultiSelect", "AreOptionsDefined") =>
           ret["AreOptionsDefined"] =
               (~recv.val.nil /\ Len(recv.val.val.Options) > 0)
    /\ Called("Selects", "AreOptionsDefined") =>
           ret["AreOptionsDefined"] =
               (/\ ~recv.val.nil
                /\ \E i \in 1..Len(recv.val.val.Items) :
                       \E g \in 1..Len(recv.val.val.Items[i].OptionGroups) :
                           Len(recv.val.val.Items[i].OptionGroups[g].Options) > 0)

\* C4: every operation that produces a command button returns a Button whose
\* Command is exactly the bot-name placeholder, one space, then cmd: the
\* prefix is applied once, not zero times and not twice.
C4_CommandPrefixedOnce ==
    \A op \in CommandOps :
        Built(op) =>
            /\ ret[op].Command = MessageBotNamePlaceholder \o <<" ">> \o args.cmd
            /\ Len(ret[op].Command) = Len(MessageBotNamePlaceholder) + 1 + Len(args.cmd)
            /\ ret[op].Command # args.cmd
            /\ ret[op].Command # Prefixed(Prefixed(args.cmd))

\* A command button was built through commandWithDesc from a cmd that is
\* itself the placeholder text.
C4_Witness ==
    /\ Built("ForCommandWithBoldDesc")
    /\ args.cmd = MessageBotNamePlaceholder
    /\ ret["ForCommandWithBoldDesc"].Command = <<"@", " ", "@">>

\* C5: ForCommandWithDescCmd(name, cmd) with no style override returns
\* Button{Name: name, Command: placeholder+" "+cmd,
\* Description: placeholder+" "+cmd, DescriptionStyle: code, Style: default,
\* URL: empty}.
C5_DescCmdButton ==
    (Built("ForCommandWithDescCmd") /\ args.style = <<>>) =>
        /\ ret["ForCommandWithDescCmd"] =
               [Name |-> args.name,
                Command |-> Prefixed(args.cmd),
                Description |-> Prefixed(args.cmd),
                DescriptionStyle |-> "code",
                Style |-> "",
                URL |-> <<>>]
        /\ ret["ForCommandWithDescCmd"].Command = ret["ForCommandWithDescCmd"].Description

\* ForCommandWithDescCmd("a", "a") was called without a style.
C5_Witness ==
    /\ Built("ForCommandWithDescCmd")
    /\ args = [name |-> <<"a">>, cmd |-> <<"a">>, style |-> <<>>]
    /\ ret["ForCommandWithDescCmd"].Description = <<"@", " ", "a">>

\* C6 (as claimed): ForCommand(name, cmd, desc) returns a Button whose
\* Description is the description supplied by the caller, whose
\* DescriptionStyle is code and whose Command is placeholder+" "+cmd.
C6_DescriptionAsSupplied ==
    Built("ForCommand") =>
        /\ ret["ForCommand"].Description = args.desc
        /\ ret["ForCommand"].DescriptionStyle = "code"
        /\ ret["ForCommand"].Command = Prefixed(args.cmd)

\* C6 (amended): ForCommand(name, cmd, desc) returns a Button whose
\* Description is the bot-name placeholder, one space, then the description
\* supplied by the caller, whose DescriptionStyle is code and whose Command is
\* placeholder+" "+cmd.
C6_DescriptionPrefixed ==
    Built("ForCommand") =>
        /\ ret["ForCommand"].Description =
               MessageBotNamePlaceholder \o <<" ">> \o args.desc
        /\ ret["ForCommand"].DescriptionStyle = "code"
        /\ ret["ForCommand"].Command = Prefixed(args.cmd)

\* ForCommand was called with a description that differs from the command.
C6_Witness ==
    /\ Built("ForCommand")
    /\ args.cmd = <<"a">>
    /\ args.desc = <<" ">>
    /\ ret["ForCommand"].Description = <<"@", " ", " ">>

\* C7: ForURLWithBoldDesc(name, desc, url) returns Button{Name: name, URL: url,
\* Description: desc, DescriptionStyle: bold} and ForURLWithTextDesc the same
\* button with DescriptionStyle: text; the Description is desc unchanged,
\* Command is empty, and Style is the default when no override is passed.
C7_URLWithDesc ==
    /\ Built("ForURLWithBoldDesc") =>
           /\ [ret["ForURLWithBoldDesc"] EXCEPT !.Style = ""] =
                  [Name |-> args.name, URL |-> args.url, Description |-> args.desc,
                   DescriptionStyle |-> "bold", Command |-> <<>>, Style |-> ""]
           /\ args.style = <<>> => ret["ForURLWithBoldDesc"].Style = ""
    /\ Built("ForURLWithTextDesc") =>
           /\ [ret["ForURLWithTextDesc"] EXCEPT !.Style = ""] =
                  [Name |-> args.name, URL |-> args.url, Description |-> args.desc,
                   DescriptionStyle |-> "text", Command |-> <<>>, Style |-> ""]
           /\ args.style = <<>> => ret["ForURLWithTextDesc"].Style = ""

\* ForURLWithTextDesc was called with a description that is the placeholder
\* text and no style.
C7_Witness ==
    /\ Built("ForURLWithTextDesc")
    /\ args = [name |-> <<"a">>, desc |-> <<"@">>, url |-> <<"a">>, style |-> <<>>]
    /\ ret["ForURLWithTextDesc"].Description = <<"@">>

\* The builder operation op applied to the arguments a with the styles style.
Apply(op, a, style) ==
    CASE op = "ForCommandWithDescCmd" -> ForCommandWithDescCmd(a.name, a.cmd, style)
      [] op = "ForCommandWithBoldDesc" ->
             ForCommandWithBoldDesc(a.name, a.desc, a.cmd, style)
      [] op = "DescriptionURL" -> DescriptionURL(a.name, a.cmd, a.url, style)
      [] op = "ForCommandWithoutDesc" -> ForCommandWithoutDesc(a.name, a.cmd, style)
      [] op = "ForCommand" -> ForCommand(a.name, a.cmd, a.desc, style)
      [] op = "ForURLWithBoldDesc" -> ForURLWithBoldDesc(a.name, a.desc, a.url, style)
      [] op = "ForURLWithTextDesc" -> ForURLWithTextDesc(a.name, a.desc, a.url, style)
      [] op = "ForURL" -> ForURL(a.name, a.url, style)

\* C8: for each of the eight builder operations the Button's Style is
\* ButtonStyleDefault when no style is passed and the first style passed
\* otherwise (later ones are ignored), and the style argument affects no
\* other field: the Button is the one built without a style, but for Style.
C8_StyleIsFirstOrDefault ==
    \A op \in CommandOps \cup URLOps :
        Built(op) =>
            /\ Len(args.style) = 0 => ret[op].Style = ""
            /\ Len(args.style) > 0 => ret[op].Style = args.style[1]
            /\ [ret[op] EXCEPT !.Style = ""] = Apply(op, args, <<>>)

\* A URL button was built with two different styles passed.
C8_Witness ==
    /\ Built("ForURLWithBoldDesc")
    /\ args.style = <<"danger", "primary">>
    /\ ret["ForURLWithBoldDesc"].Style = "danger"

\* C9: AreItemsDefined() returns true iff at least one contained BulletList
\* has a non-empty Items sequence, whatever the lists' titles: false for the
\* empty collection and for one whose lists all have no items.
C9_ItemsDefinedIff ==
    Called("BulletLists", "AreItemsDefined") =>
        /\ ret["AreItemsDefined"] =
               (\E i \in 1..Len(recv.val) : recv.val[i].Items # <<>>)
        /\ recv.val = <<>> => ret["AreItemsDefined"] = FALSE

\* AreItemsDefined ran on two titled lists without items.
C9_Witness ==
    /\ Called("BulletLists", "AreItemsDefined")
    /\ recv.val = <<BulletList(<<"a">>, <<>>), BulletList(<<"a">>, <<>>)>>
    /\ ret["AreItemsDefined"] = FALSE

\* C10: no Button a builder operation returns has both a non-empty Command
\* and a non-empty URL; the four command operations yield a non-empty Command
\* with an empty URL, the four URL operations an empty Command.
C10_CommandXorURL ==
    \A op \in CommandOps \cup URLOps :
        Built(op) =>
            /\ ~(ret[op].Command # <<>> /\ ret[op].URL # <<>>)
            /\ op \in CommandOps => (ret[op].Command # <<>> /\ ret[op].URL = <<>>)
            /\ op \in URLOps => ret[op].Command = <<>>

\* DescriptionURL was called with a command text and a url.
C10_Witness ==
    /\ Built("DescriptionURL")
    /\ args.cmd = <<"a">>
    /\ args.url = <<"a">>
    /\ ret["DescriptionURL"].URL = <<"a">>

====
